---- MODULE Spec2Model ----
(***************************************************************************)
(* Model of ts_hashmap.c: a fixed-capacity chained hash map of int -> int  *)
(* with one mutex per bucket, one mutex for size and one for numOps.       *)
(* Every thread runs get / put / del; each action below is one step of one *)
(* of these functions: taking a mutex together with the first read it      *)
(* guards, one iteration of a chain loop, the store of a counter update    *)
(* together with the release of its mutex, or the release of a bucket.     *)
(***************************************************************************)
EXTENDS Integers, Sequences, FiniteSets, TLC

\* ---------------------------------------------------------------- bounds
NumThreads  == 2    \* threads of the concurrent workload
MaxCalls    == 2    \* calls made by the threads of the concurrent workload
MaxSeqCalls == 5    \* calls made in the single-threaded workload
MaxEntries  == 4    \* entries the allocator can hand out
Capacity    == 3    \* the capacity given to initmap
MaxCapacity == 4    \* the largest capacity of the workload of all capacities

\* ------------------------------------------------------- program constants
INT_MAX  == 2147483647
HalfWord == 65536

NULL     == 0
NoThread == 0
MapAddr  == 1

\* INT_MIN of <limits.h>
INT_MIN  == (0 - INT_MAX) - 1

Threads == 1..NumThreads
Addrs   == 1..MaxEntries
SmallKeys == {-1, 0, 3, 1}
EdgeKeys  == {INT_MIN, INT_MIN + 1, -2, -1, 0, INT_MAX}
Keys    == SmallKeys \cup EdgeKeys
Values  == {1, 2, INT_MAX}

\* the callers. First thread 1 alone makes the calls of warm, one after
\* the other; then the threads make calls on keys, in any interleaving,
\* their puts storing one of values. get, put and del copy and return values
\* and never compare them, so the concurrent callers put a single value, which
\* differs from the one warm stores and from INT_MAX.
ColdLoad == [warm |-> <<>>, threads |-> Threads, calls |-> MaxCalls,
             keys |-> {-1, 3}, values |-> {2}]
WarmLoad == [warm |-> <<[op |-> "put", key |-> -1, value |-> 1], [op |-> "put", key |-> 3, value |-> 1]>>,
             threads |-> Threads, calls |-> MaxCalls,
             keys |-> {-1, 3, 1}, values |-> {2}]
SequentialLoad == [warm |-> <<>>, threads |-> {1}, calls |-> MaxSeqCalls,
                   keys |-> SmallKeys, values |-> {1, INT_MAX}]
\* a map of any capacity, filled by put(-1, 1); put(0, 1), then called on the
\* keys at the ends of the int range
EdgeLoad == [warm |-> <<[op |-> "put", key |-> -1, value |-> 1], [op |-> "put", key |-> 0, value |-> 1]>>,
             threads |-> {1}, calls |-> MaxCalls,
             keys |-> EdgeKeys, values |-> {2}]

\* a map whose bucket 0 holds the chain 3, 0 after a head with a child was
\* removed, then called on a key in the chain and a key of an empty bucket
FairLoad == [warm |-> <<[op |-> "put", key |-> -1, value |-> 1],
                        [op |-> "put", key |-> 3, value |-> 1],
                        [op |-> "put", key |-> 0, value |-> 1],
                        [op |-> "del", key |-> -1, value |-> 0]>>,
             threads |-> Threads, calls |-> MaxCalls,
             keys |-> {0, 1}, values |-> {2}]

VARIABLES
  map,           \* the pointer initmap returned
  capacity,      \* map->capacity
  table,         \* map->table[i]: address of the head entry, or NULL
  heap,          \* the ts_entry_t objects, by address
  size,          \* map->size
  numOps,        \* map->numOps
  bucketLocks,   \* map->bucketLocks[i]: owner thread or NoThread
  opLock,        \* map->opLock
  sizeLock,      \* map->sizeLock
  th,            \* per thread: position and locals of the running call
  load,          \* the callers of this run
  started,       \* history: number of calls begun
  completed,     \* history: number of calls returned
  quiet,         \* history: per key, the last put/del that ran undisturbed
  overlap,       \* history: some call began while another was running
  joined,        \* history: the threads 1..joined have made a call after warm
  obs            \* history: per running call, what it saw and did

vars == <<map, capacity, table, heap, size, numOps, bucketLocks, opLock, sizeLock,
          th, load, started, completed, quiet, overlap, joined, obs>>

\* ------------------------------------------------------------ data model
\* (unsigned int) key: the bit pattern of a 32-bit int read as unsigned, kept
\* as its two 16-bit halves (the value is hi * 2^16 + lo, in 0 .. 2^32 - 1)
ToUnsigned(k) == [hi |-> (k \div HalfWord) % HalfWord, lo |-> k % HalfWord]

\* u % cap for an unsigned 32-bit u and a positive cap
UMod(u, cap) == ((u.hi % cap) * (HalfWord % cap) + (u.lo % cap)) % cap

\* faulty variant: the index is the least non-negative residue of the signed
\* key, ((key % capacity) + capacity) % capacity in C
FloorHash(k, cap) == k % cap

\* faulty variant: the index taken from the absolute value of the key
AbsHash(k, cap) == (IF k < 0 THEN 0 - k ELSE k) % cap

\* searchIndex = ((unsigned int) key) % map->capacity
Hash(k, cap) == UMod(ToUnsigned(k), cap)

FreedEntry == [key |-> 0, value |-> 0, next |-> NULL, live |-> FALSE]

\* faulty variant: the new entry does not receive the value
NewEntryNoValue(k, v) == [key |-> k, value |-> 0, next |-> NULL, live |-> TRUE]

\* newBucket->key = key; newBucket->value = value; newBucket->next = NULL
NewEntry(k, v) == [key |-> k, value |-> v, next |-> NULL, live |-> TRUE]


\* faulty variant: a lock call that returns although the mutex is held
NeverBlocks(m) == TRUE

\* pthread_mutex_lock returns only when the mutex is free
CanAcquire(m) == m = NoThread

\* a block malloc can hand out: a free one. The program never looks at an
\* address, so which free block malloc picks cannot be observed; the block
\* that del freed at line 193 and has not yet cleared from table[searchIndex]
\* at line 194 is picked only after that line, so that table[searchIndex] is
\* never shown pointing into the chain of another bucket.
Reusable(a) ==
  /\ ~heap[a].live
  /\ \A t \in Threads : ~(th[t].pc = "del_head_clear" /\ th[t].bucket = a)

\* malloc: the lowest block it can hand out
Malloc == CHOOSE a \in Addrs : Reusable(a) /\ \A b \in Addrs : b < a => ~Reusable(b)

CanMalloc == \E a \in Addrs : Reusable(a)

IdleFrame == [pc |-> "idle", op |-> "none", key |-> 0, value |-> 0,
              searchIndex |-> 0, returnValue |-> INT_MAX, madeNewBucket |-> 0,
              bucket |-> NULL, bucketWasDeleted |-> 0, reg |-> 0]

NoRecord == [kind |-> "none", val |-> 0]
AbsentRecord == [kind |-> "init", val |-> 0]
IdleObs == [expect |-> NoRecord, alone |-> FALSE, sizeDelta |-> 0, opDelta |-> 0]

\* ---------------------------------------------------------- table scans
RECURSIVE Walk(_, _)
\* the addresses met from entry a by following next, at most fuel of them
Walk(a, fuel) ==
  IF a = NULL \/ fuel = 0 THEN <<>>
  ELSE <<a>> \o Walk(heap[a].next, fuel - 1)

\* the chain of bucket i as a sequence of addresses
ChainAddrs(i) == Walk(table[i], MaxEntries + 1)

RECURSIVE WalkPairs(_, _)
\* the (key, value) pairs met from entry a, as printmap lists them
WalkPairs(a, fuel) ==
  IF a = NULL \/ fuel = 0 THEN <<>>
  ELSE <<(<<heap[a].key, heap[a].value>>)>> \o WalkPairs(heap[a].next, fuel - 1)

\* the chain of bucket i as a sequence of (key, value) pairs
Chain(i) == WalkPairs(table[i], MaxEntries + 1)

Buckets == 0..(capacity - 1)

RECURSIVE Count(_, _)
\* the number of entries met from entry a
Count(a, fuel) ==
  IF a = NULL \/ fuel = 0 THEN 0 ELSE 1 + Count(heap[a].next, fuel - 1)

RECURSIVE SumCount(_)
SumCount(n) == IF n <= 0 THEN 0
               ELSE Count(table[n - 1], MaxEntries + 1) + SumCount(n - 1)

\* the total number of entries reachable from all buckets
NumEntries == SumCount(capacity)

\* the keys present anywhere in the table
KeysPresent == UNION {{p[1] : p \in {c[n] : n \in DOMAIN c}} : c \in {Chain(i) : i \in Buckets}}

\* --------------------------------------------------------- construction
\* initmap(c): the map object is allocated and returned whatever c is; the
\* loop for (i = 0; i < capacity; i++) gives it c empty buckets and c free
\* mutexes, none when c <= 0; the counters are zero
InitMap(c) ==
  /\ map = MapAddr
  /\ capacity = c
  /\ table = [i \in 0..(c - 1) |-> NULL]
  /\ heap = [a \in Addrs |-> FreedEntry]
  /\ size = 0
  /\ numOps = 0
  /\ bucketLocks = [i \in 0..(c - 1) |-> NoThread]
  /\ opLock = NoThread
  /\ sizeLock = NoThread

\* initmap(Capacity)
initmap == InitMap(Capacity)

NoCalls ==
  /\ th = [t \in Threads |-> IdleFrame]
  /\ started = 0
  /\ completed = 0
  /\ quiet = [k \in Keys |-> AbsentRecord]
  /\ overlap = FALSE
  /\ joined = 0
  /\ obs = [t \in Threads |-> IdleObs]

Init == initmap /\ NoCalls /\ load \in {ColdLoad, WarmLoad}

InitSeq == initmap /\ NoCalls /\ load = SequentialLoad

\* the capacities the callers of the workload of all capacities pass
Capacities == (0 - 1)..MaxCapacity

InitCap == (\E c \in Capacities : InitMap(c)) /\ NoCalls /\ load = EdgeLoad

\* ------------------------------------------------------------- helpers
mapVars   == <<map, capacity, table, heap, size, numOps>>
lockVars  == <<bucketLocks, opLock, sizeLock>>
histVars  == <<load, started, completed, quiet, overlap, joined, obs>>

At(t, l) == th[t].pc = l
Goto(t, l) == th' = [th EXCEPT ![t].pc = l]
Idx(t) == th[t].searchIndex

Mutating(o) == o \in {"put", "del"}
InFlight(u) == th[u].pc # "idle"

\* faulty variant: del goes to its bucket without counting itself
FirstStepUncounted(o) ==
  IF o = "get" THEN "get_lock" ELSE IF o = "put" THEN "put_lock" ELSE "del_lock"

\* the first lock call of each function: get and put lock their bucket, del
\* locks opLock
FirstStep(o) ==
  IF o = "get" THEN "get_lock" ELSE IF o = "put" THEN "put_lock" ELSE "del_count"

\* a thread calls get / put / del: the locals declared before the first lock.
\* On a map of capacity 0 the index is a division by zero, and on a map of
\* negative capacity bucketLocks is NULL: the call stops the program.
\* The threads run the same code, so they are numbered in the order of their
\* first call after warm: thread t + 1 makes its first call after thread t.
Enter(t, o, k, v) ==
  /\ At(t, "idle")
  /\ IF started < Len(load.warm)
     THEN /\ t = 1 /\ o = load.warm[started + 1].op
          /\ k = load.warm[started + 1].key /\ v = load.warm[started + 1].value
          /\ \A u \in Threads : ~InFlight(u)
          /\ joined' = joined
     ELSE /\ t \in load.threads
          /\ k \in load.keys
          /\ o = "put" => v \in load.values
          /\ started < Len(load.warm) + load.calls
          /\ t <= joined + 1
          /\ joined' = IF t > joined THEN t ELSE joined
  /\ th' = [th EXCEPT ![t] =
               IF capacity <= 0
               THEN [IdleFrame EXCEPT !.pc = "crashed", !.op = o, !.key = k,
                                      !.value = v]
               ELSE [IdleFrame EXCEPT !.pc = FirstStep(o), !.op = o, !.key = k,
                                      !.value = v,
                                      !.searchIndex = Hash(k, capacity)]]
  /\ started' = started + 1
  /\ overlap' = (overlap \/ \E u \in Threads \ {t} : InFlight(u))
  /\ LET busy == \E u \in Threads \ {t} :
                     InFlight(u) /\ Mutating(th[u].op) /\ th[u].key = k
         mine == [expect |-> IF busy THEN NoRecord ELSE quiet[k],
                  alone |-> Mutating(o) /\ ~busy,
                  sizeDelta |-> 0, opDelta |-> 0]
     IN  /\ obs' = [u \in Threads |->
                      IF u = t THEN mine
                      ELSE IF Mutating(o) /\ InFlight(u) /\ th[u].key = k
                           THEN [obs[u] EXCEPT !.expect = NoRecord, !.alone = FALSE]
                           ELSE obs[u]]
         /\ quiet' = IF Mutating(o) THEN [quiet EXCEPT ![k] = NoRecord] ELSE quiet
  /\ UNCHANGED <<mapVars, lockVars, load, completed>>

\* the call returns: its locals die
Leave(t) ==
  /\ th' = [th EXCEPT ![t] = IdleFrame]
  /\ completed' = completed + 1
  /\ quiet' = IF obs[t].alone
              THEN [quiet EXCEPT ![th[t].key] =
                      [kind |-> th[t].op, val |-> th[t].value]]
              ELSE quiet
  /\ obs' = [obs EXCEPT ![t] = IdleObs]
  /\ UNCHANGED <<mapVars, lockVars, load, started, overlap, joined>>

\* pthread_mutex_lock(map->opLock); and the load of map->numOps ++
CountBegin(t, next) ==
  /\ CanAcquire(opLock)
  /\ opLock' = t
  /\ th' = [th EXCEPT ![t].reg = numOps, ![t].pc = next]
  /\ UNCHANGED <<mapVars, bucketLocks, sizeLock, histVars>>

\* the store of map->numOps ++; pthread_mutex_unlock(map->opLock)
CountEnd(t, next) ==
  /\ numOps' = th[t].reg + 1
  /\ opLock' = NoThread
  /\ obs' = [obs EXCEPT ![t].opDelta = @ + (numOps' - numOps)]
  /\ th' = [th EXCEPT ![t].reg = 0, ![t].pc = next]
  /\ UNCHANGED <<map, capacity, table, heap, size, bucketLocks, sizeLock,
                 load, started, completed, quiet, overlap, joined>>

\* pthread_mutex_lock(map->sizeLock); and the load of map->size ++ / --
SizeBegin(t, next) ==
  /\ CanAcquire(sizeLock)
  /\ sizeLock' = t
  /\ th' = [th EXCEPT ![t].reg = size, ![t].pc = next]
  /\ UNCHANGED <<mapVars, bucketLocks, opLock, histVars>>

\* the store of map->size ++ / --; pthread_mutex_unlock(map->sizeLock)
SizeEnd(t, d, next) ==
  /\ size' = th[t].reg + d
  /\ sizeLock' = NoThread
  /\ obs' = [obs EXCEPT ![t].sizeDelta = @ + (size' - size)]
  /\ th' = [th EXCEPT ![t].reg = 0, ![t].pc = next]
  /\ UNCHANGED <<map, capacity, table, heap, numOps, bucketLocks, opLock,
                 load, started, completed, quiet, overlap, joined>>

\* pthread_mutex_lock(map->bucketLocks[searchIndex]);
\* ts_entry_t *bucket = map->table[searchIndex]
LockBucket(t, next) ==
  /\ CanAcquire(bucketLocks[Idx(t)])
  /\ bucketLocks' = [bucketLocks EXCEPT ![Idx(t)] = t]
  /\ th' = [th EXCEPT ![t].bucket = table[Idx(t)], ![t].pc = next]
  /\ UNCHANGED <<mapVars, opLock, sizeLock, histVars>>

\* pthread_mutex_unlock(map->bucketLocks[searchIndex])
UnlockBucket(t, next) ==
  /\ bucketLocks' = [bucketLocks EXCEPT ![Idx(t)] = NoThread]
  /\ Goto(t, next)
  /\ UNCHANGED <<mapVars, opLock, sizeLock, histVars>>

\* ------------------------------------------------------------------ get
get_call(t) == \E k \in Keys : Enter(t, "get", k, 0)

get_lock(t) == At(t, "get_lock") /\ LockBucket(t, "get_loop")

\* one iteration of while (bucket != NULL)
get_loop(t) ==
  /\ At(t, "get_loop")
  /\ LET b == th[t].bucket IN
       IF b = NULL
       THEN Goto(t, "get_unlock")
       ELSE IF th[t].key = heap[b].key
            THEN th' = [th EXCEPT ![t].returnValue = heap[b].value,
                                  ![t].pc = "get_unlock"]
            ELSE th' = [th EXCEPT ![t].bucket = heap[b].next]
  /\ UNCHANGED <<mapVars, lockVars, histVars>>

\* faulty variant: a get that misses returns without counting itself
get_unlock_hits_only(t) ==
  /\ At(t, "get_unlock")
  /\ UnlockBucket(t, IF th[t].returnValue = INT_MAX THEN "get_ret" ELSE "get_count")

get_unlock(t) == At(t, "get_unlock") /\ UnlockBucket(t, "get_count")

get_count(t) == At(t, "get_count") /\ CountBegin(t, "get_counted")

get_counted(t) == At(t, "get_counted") /\ CountEnd(t, "get_ret")

get_return(t) == At(t, "get_ret") /\ Leave(t)

get(t) ==
  \/ get_call(t) \/ get_lock(t) \/ get_loop(t) \/ get_unlock(t)
  \/ get_count(t) \/ get_counted(t) \/ get_return(t)

\* ------------------------------------------------------------------ put
put_call(t) == \E k \in Keys, v \in Values : Enter(t, "put", k, v)

put_lock(t) ==
  /\ At(t, "put_lock")
  /\ LockBucket(t, IF table[Idx(t)] = NULL THEN "put_head" ELSE "put_loop")

\* if (bucket == NULL): the new entry becomes the head of the chain
put_head(t) ==
  /\ At(t, "put_head")
  /\ CanMalloc
  /\ heap' = [heap EXCEPT ![Malloc] = NewEntry(th[t].key, th[t].value)]
  /\ table' = [table EXCEPT ![Idx(t)] = Malloc]
  /\ th' = [th EXCEPT ![t].madeNewBucket = 1, ![t].pc = "put_unlock"]
  /\ UNCHANGED <<map, capacity, size, numOps, lockVars, histVars>>

\* faulty variant: the old value is kept
SameValue(e, v) == e

\* bucket->value = value
Overwrite(e, v) == [e EXCEPT !.value = v]

\* if (bucket->next == NULL)
IsLast(e) == e.next = NULL

\* faulty variant: the value is read after it was overwritten
StoredValue(e, v) == v

\* returnValue = bucket->value, before bucket->value = value
OldValue(e, v) == e.value

\* faulty variant: a new key is linked in front of the chain
put_loop_prepend(t) ==
  /\ At(t, "put_loop")
  /\ LET b == th[t].bucket IN
       IF b = NULL
       THEN /\ Goto(t, "put_unlock")
            /\ UNCHANGED <<heap, table>>
       ELSE IF th[t].key = heap[b].key
       THEN /\ heap' = [heap EXCEPT ![b] = Overwrite(heap[b], th[t].value)]
            /\ th' = [th EXCEPT ![t].returnValue = OldValue(heap[b], th[t].value),
                                ![t].pc = "put_unlock"]
            /\ UNCHANGED table
       ELSE IF IsLast(heap[b])
            THEN /\ CanMalloc
                 /\ heap' = [heap EXCEPT ![Malloc] =
                               [NewEntry(th[t].key, th[t].value) EXCEPT
                                  !.next = table[Idx(t)]]]
                 /\ table' = [table EXCEPT ![Idx(t)] = Malloc]
                 /\ th' = [th EXCEPT ![t].madeNewBucket = 1, ![t].pc = "put_unlock"]
            ELSE /\ th' = [th EXCEPT ![t].bucket = heap[b].next]
                 /\ UNCHANGED <<heap, table>>
  /\ UNCHANGED <<map, capacity, size, numOps, lockVars, histVars>>

\* one iteration of while (bucket != NULL) in the else branch
put_loop(t) ==
  /\ At(t, "put_loop")
  /\ LET b == th[t].bucket IN
       IF b = NULL
       THEN /\ Goto(t, "put_unlock")
            /\ UNCHANGED heap
       ELSE IF th[t].key = heap[b].key
       THEN /\ heap' = [heap EXCEPT ![b] = Overwrite(heap[b], th[t].value)]
            /\ th' = [th EXCEPT ![t].returnValue = OldValue(heap[b], th[t].value),
                                ![t].pc = "put_unlock"]
       ELSE IF IsLast(heap[b])
            THEN /\ CanMalloc
                 /\ heap' = [heap EXCEPT ![Malloc] = NewEntry(th[t].key, th[t].value),
                                         ![b].next = Malloc]
                 /\ th' = [th EXCEPT ![t].madeNewBucket = 1, ![t].pc = "put_unlock"]
            ELSE /\ th' = [th EXCEPT ![t].bucket = heap[b].next]
                 /\ UNCHANGED heap
  /\ UNCHANGED <<map, capacity, table, size, numOps, lockVars, histVars>>

\* faulty variant: size is incremented on a replacement too
AlwaysNew(m) == TRUE

\* if (madeNewBucket)
MadeNew(m) == m = 1

\* faulty variant: a put that replaced a value returns without counting itself
put_unlock_new_only(t) ==
  /\ At(t, "put_unlock")
  /\ UnlockBucket(t, IF MadeNew(th[t].madeNewBucket) THEN "put_size"
                     ELSE "put_ret")

put_unlock(t) ==
  /\ At(t, "put_unlock")
  /\ UnlockBucket(t, IF MadeNew(th[t].madeNewBucket) THEN "put_size"
                     ELSE "put_count")

put_size(t) == At(t, "put_size") /\ SizeBegin(t, "put_sized")

put_sized(t) == At(t, "put_sized") /\ SizeEnd(t, 1, "put_count")

put_count(t) == At(t, "put_count") /\ CountBegin(t, "put_counted")

put_counted(t) == At(t, "put_counted") /\ CountEnd(t, "put_ret")

put_return(t) == At(t, "put_ret") /\ Leave(t)

put(t) ==
  \/ put_call(t) \/ put_lock(t) \/ put_head(t) \/ put_loop(t)
  \/ put_unlock(t) \/ put_size(t) \/ put_sized(t)
  \/ put_count(t) \/ put_counted(t) \/ put_return(t)

\* ------------------------------------------------------------------ del
del_call(t) == \E k \in Keys : Enter(t, "del", k, 0)

del_count(t) == At(t, "del_count") /\ CountBegin(t, "del_counted")

del_counted(t) == At(t, "del_counted") /\ CountEnd(t, "del_lock")

del_lock(t) ==
  /\ At(t, "del_lock")
  /\ LockBucket(t, IF table[Idx(t)] = NULL THEN "del_empty" ELSE "del_head")

\* faulty variant: the early return leaves the bucket locked
del_empty_locked(t) == At(t, "del_empty") /\ Goto(t, "del_ret") /\ UNCHANGED <<mapVars, lockVars, histVars>>

\* if (bucket == NULL): unlock and return
del_empty(t) == At(t, "del_empty") /\ UnlockBucket(t, "del_ret")

\* faulty variant: the successors of the removed head are dropped
DropChain(e) == NULL

\* the head after the removal of a head that has a child: bucket->next
NewHead(e) == e.next

\* free(p) as the allocator sees it: the block is free, its bytes still there
Release(h, a) == [h EXCEPT ![a].live = FALSE]

\* if (bucket->key == key): the first entry of the chain is removed. The only
\* entry of a chain is freed first and table[searchIndex] is cleared next; a
\* head with a child is unlinked first and freed next
del_head(t) ==
  /\ At(t, "del_head")
  /\ LET b == th[t].bucket IN
       IF heap[b].key = th[t].key
       THEN IF heap[b].next = NULL
            THEN /\ heap' = Release(heap, b)
                 /\ th' = [th EXCEPT ![t].returnValue = heap[b].value,
                                     ![t].pc = "del_head_clear"]
                 /\ UNCHANGED table
            ELSE /\ table' = [table EXCEPT ![Idx(t)] = NewHead(heap[b])]
                 /\ th' = [th EXCEPT ![t].returnValue = heap[b].value,
                                     ![t].pc = "del_head_free"]
                 /\ UNCHANGED heap
       ELSE /\ th' = [th EXCEPT ![t].pc = "del_loop"]
            /\ UNCHANGED <<table, heap>>
  /\ UNCHANGED <<map, capacity, size, numOps, lockVars, histVars>>

\* map->table[searchIndex] = NULL, after free(bucket); the freed block, now
\* out of reach, is modelled without its old bytes
del_head_clear(t) ==
  /\ At(t, "del_head_clear")
  /\ table' = [table EXCEPT ![Idx(t)] = NULL]
  /\ heap' = [heap EXCEPT ![th[t].bucket] = FreedEntry]
  /\ Goto(t, "del_head_unlock")
  /\ UNCHANGED <<map, capacity, size, numOps, lockVars, histVars>>

\* free(bucket), after map->table[searchIndex] = bucket->next
del_head_free(t) ==
  /\ At(t, "del_head_free")
  /\ heap' = [heap EXCEPT ![th[t].bucket] = FreedEntry]
  /\ Goto(t, "del_head_unlock")
  /\ UNCHANGED <<map, capacity, table, size, numOps, lockVars, histVars>>

del_head_unlock(t) == At(t, "del_head_unlock") /\ UnlockBucket(t, "del_head_size")

del_head_size(t) == At(t, "del_head_size") /\ SizeBegin(t, "del_head_sized")

del_head_sized(t) == At(t, "del_head_sized") /\ SizeEnd(t, -1, "del_ret")

\* faulty variant: the removed entry stays linked
KeepNext(h, e) == e.next

\* bucket->next->next, the new value of bucket->next
Splice(h, e) == h[e.next].next

\* faulty variants: size is decremented on a miss / not decremented at all
AlwaysDeleted(d) == TRUE

NeverDeleted(d) == FALSE

\* if (bucketWasDeleted)
WasDeleted(d) == d = 1

\* one iteration of while (bucket->next != NULL), then if (bucketWasDeleted)
del_loop(t) ==
  /\ At(t, "del_loop")
  /\ LET b == th[t].bucket
         n == heap[b].next
     IN  IF n = NULL
         THEN /\ th' = [th EXCEPT ![t].pc =
                          IF WasDeleted(th[t].bucketWasDeleted)
                          THEN "del_size" ELSE "del_unlock"]
              /\ UNCHANGED heap
         ELSE IF th[t].key = heap[n].key
              THEN /\ heap' = [heap EXCEPT ![b].next = Splice(heap, heap[b]),
                                           ![n] = FreedEntry]
                   /\ th' = [th EXCEPT ![t].returnValue = heap[n].value,
                                       ![t].bucketWasDeleted = 1,
                                       ![t].pc = IF WasDeleted(1)
                                                 THEN "del_size" ELSE "del_unlock"]
              ELSE /\ th' = [th EXCEPT ![t].bucket = n]
                   /\ UNCHANGED heap
  /\ UNCHANGED <<map, capacity, table, size, numOps, lockVars, histVars>>

del_size(t) == At(t, "del_size") /\ SizeBegin(t, "del_sized")

del_sized(t) == At(t, "del_sized") /\ SizeEnd(t, -1, "del_unlock")

del_unlock(t) == At(t, "del_unlock") /\ UnlockBucket(t, "del_ret")

del_return(t) == At(t, "del_ret") /\ Leave(t)

del(t) ==
  \/ del_call(t) \/ del_count(t) \/ del_counted(t) \/ del_lock(t)
  \/ del_empty(t) \/ del_head(t) \/ del_head_clear(t) \/ del_head_free(t)
  \/ del_head_unlock(t) \/ del_head_size(t)
  \/ del_head_sized(t) \/ del_loop(t) \/ del_size(t) \/ del_sized(t)
  \/ del_unlock(t) \/ del_return(t)

\* ------------------------------------------------------- specification
Next == \E t \in Threads : get(t) \/ put(t) \/ del(t)

\* the concurrent workload
Spec == Init /\ [][Next]_vars

\* the single-threaded workload
SpecSeq == InitSeq /\ [][Next]_vars

\* the workload of all capacities
SpecCap == InitCap /\ [][Next]_vars

\* the steps of the running call of t: all of get, put and del but the call
Run(t) ==
  \/ get_lock(t) \/ get_loop(t) \/ get_unlock(t) \/ get_count(t)
  \/ get_counted(t) \/ get_return(t)
  \/ put_lock(t) \/ put_head(t) \/ put_loop(t) \/ put_unlock(t) \/ put_size(t)
  \/ put_sized(t) \/ put_count(t) \/ put_counted(t) \/ put_return(t)
  \/ del_count(t) \/ del_counted(t) \/ del_lock(t) \/ del_empty(t)
  \/ del_head(t) \/ del_head_clear(t) \/ del_head_free(t) \/ del_head_unlock(t)
  \/ del_head_size(t) \/ del_head_sized(t) \/ del_loop(t) \/ del_size(t)
  \/ del_sized(t) \/ del_unlock(t) \/ del_return(t)

\* the concurrent workload on a filled map under a scheduler that runs every
\* thread that can take a step: a running call is not suspended forever. The
\* callers are free to stop calling.
InitFair == initmap /\ NoCalls /\ load = FairLoad

SpecFair == InitFair /\ [][Next]_vars /\ \A t \in Threads : WF_vars(Run(t))

\* ------------------------------------------------- observation helpers
\* where key k is stored: the (bucket, value) pairs found by a full scan
Stored(k) ==
  UNION {LET c == Chain(i)
         IN  {<<i, c[n][2]>> : n \in {m \in DOMAIN c : c[m][1] = k}} : i \in Buckets}

\* chain i without the entries of key k
Others(i, k) == SelectSeq(Chain(i), LAMBDA p : p[1] # k)

\* thread t takes a step of its running call
Steps(t) == InFlight(t) /\ th'[t] # th[t]

\* the running call of t follows an undisturbed put(k, v) on its key
AfterPut(t) == obs[t].expect.kind = "put"

\* the running call of t is on a key that is known to be absent
OnAbsentKey(t) == obs[t].expect.kind \in {"init", "del"}

\* ------------------------------------------------------------- claims
\* C1: a get(k) that follows a completed put(k, v), with no other put or del
\* on k in between, returns v (negative keys included).
RoundTrip ==
  \A t \in Threads :
    (At(t, "get_ret") /\ AfterPut(t)) => th[t].returnValue = obs[t].expect.val

RoundTripWitness ==
  \E t \in Threads :
    /\ At(t, "get_ret") /\ AfterPut(t)
    /\ th[t].key < 0
    /\ th[t].returnValue = obs[t].expect.val
    /\ overlap

\* C2: a put(k, v2) that follows put(k, v1), with no other put or del on k in
\* between, returns v1, leaves v2 as the one value stored for k (what a
\* following get finds), and does not change size.
Replacement ==
  \A t \in Threads :
    (At(t, "put_ret") /\ AfterPut(t)) =>
       /\ th[t].returnValue = obs[t].expect.val
       /\ obs[t].sizeDelta = 0
       /\ th[t].madeNewBucket = 0
       /\ Stored(th[t].key) = {<<Idx(t), th[t].value>>}

ReplacementWitness ==
  \E t \in Threads :
    /\ At(t, "put_ret") /\ AfterPut(t)
    /\ obs[t].expect.val # th[t].value
    /\ th[t].returnValue = obs[t].expect.val
    /\ Stored(th[t].key) = {<<Idx(t), th[t].value>>}

\* C3: a del(k) that follows put(k, v), with no other put or del on k in
\* between, returns v, removes k from the table and decrements size by exactly
\* one; a get(k) that follows an undisturbed del(k) returns INT_MAX.
Deletion ==
  \A t \in Threads :
    /\ (At(t, "del_ret") /\ AfterPut(t)) =>
          /\ th[t].returnValue = obs[t].expect.val
          /\ obs[t].sizeDelta = -1
          /\ Stored(th[t].key) = {}
    /\ (At(t, "get_ret") /\ obs[t].expect.kind = "del") =>
          th[t].returnValue = INT_MAX

\* the removed entry had a predecessor and a successor in its chain
DeletionWitness ==
  \E t \in Threads :
    /\ At(t, "del_ret") /\ AfterPut(t)
    /\ th[t].bucketWasDeleted = 1
    /\ heap[th[t].bucket].live
    /\ heap[th[t].bucket].next # NULL
    /\ th[t].returnValue = obs[t].expect.val
    /\ obs[t].sizeDelta = -1

\* C4: two different keys of the same bucket are stored together, each with
\* its own value, and no step of a call on k1 changes any chain apart from
\* the entry of k1: the other keys keep their bucket, value and order.
CollisionStored ==
  \A k1 \in Keys :
    (/\ quiet[k1].kind = "put"
     /\ \E k2 \in Keys \ {k1} :
          /\ Hash(k1, capacity) = Hash(k2, capacity)
          /\ quiet[k2].kind = "put") =>
       Stored(k1) = {<<Hash(k1, capacity), quiet[k1].val>>}

CollisionFrame ==
  \/ table' = table /\ heap' = heap
  \/ \A t \in Threads :
       \A k \in Keys :
         (Steps(t) /\ th[t].key = k) =>
            \A i \in Buckets : Others(i, k)' = Others(i, k)

CollisionIndependence == [](CollisionStored) /\ [][CollisionFrame]_vars

\* a del of k1 has removed it from a chain that still holds another key
CollisionWitness ==
  \E t \in Threads :
    /\ At(t, "del_ret") /\ AfterPut(t)
    /\ Stored(th[t].key) = {}
    /\ \E k2 \in Keys \ {th[t].key} :
         /\ quiet[k2].kind = "put"
         /\ Stored(k2) = {<<Idx(t), quiet[k2].val>>}

\* C5: a del(k) on a key that is not in the map returns INT_MAX and none of
\* its steps changes size, the table or any entry.
MissReturn ==
  \A t \in Threads :
    (At(t, "del_ret") /\ OnAbsentKey(t)) =>
       /\ th[t].returnValue = INT_MAX
       /\ obs[t].sizeDelta = 0

MissFrame ==
  \A t \in Threads :
    (Steps(t) /\ th[t].op = "del" /\ OnAbsentKey(t)) =>
       /\ size' = size
       /\ table' = table
       /\ heap' = heap

MissOnDelete == [](MissReturn) /\ [][MissFrame]_vars

\* the miss happened in a bucket that holds other keys
MissWitness ==
  \E t \in Threads :
    /\ At(t, "del_ret") /\ OnAbsentKey(t)
    /\ table[Idx(t)] # NULL
    /\ th[t].bucket # NULL
    /\ th[t].returnValue = INT_MAX

\* the index the specification prescribes for key k: its bit pattern read as
\* an unsigned 32-bit number (k + 2^32 for a negative k), modulo the capacity
UnsignedIndex(k) ==
  LET c == capacity
      twoTo32 == ((HalfWord % c) * (HalfWord % c)) % c
  IN  IF k >= 0 THEN k % c ELSE ((k % c) + twoTo32) % c

NoDuplicateKey(i) ==
  LET c == Chain(i)
  IN  \A m \in DOMAIN c, n \in DOMAIN c : m # n => c[m][1] # c[n][1]

\* C6: every stored key k is in the chain of bucket (k as unsigned) mod
\* capacity and nowhere else, and no chain holds a key twice, in every
\* reachable state of any interleaving.
KeyPlacement ==
  \A i \in Buckets :
    /\ LET c == Chain(i) IN \A n \in DOMAIN c : UnsignedIndex(c[n][1]) = i
    /\ NoDuplicateKey(i)

\* a negative key shares a chain with another key while two calls are running
KeyPlacementWitness ==
  /\ \E i \in Buckets :
       LET c == Chain(i) IN Len(c) >= 2 /\ \E n \in DOMAIN c : c[n][1] < 0
  /\ \A t \in Threads : InFlight(t)

\* C7 as stated: size equals the number of entries in every reachable state.
SizeAlwaysExact == size = NumEntries

\* thread t has linked or unlinked an entry and has not yet updated size
SizePending(t) ==
  \/ th[t].madeNewBucket = 1 /\ th[t].pc \in {"put_unlock", "put_size", "put_sized"}
  \/ th[t].pc \in {"del_head_free", "del_head_unlock", "del_head_size",
                   "del_head_sized", "del_size", "del_sized"}

\* C7 as amended: size equals the number of entries reachable from the
\* buckets in every state in which no call has linked or unlinked an entry
\* without having updated size yet.
SizeExactWhenSettled ==
  (\A t \in Threads : ~SizePending(t)) => size = NumEntries

\* calls are running, none owes a size update, and the map is not empty
SizeSettledWitness ==
  /\ \A t \in Threads : InFlight(t) /\ ~SizePending(t)
  /\ \E t \in Threads : th[t].pc \in {"put_loop", "del_loop", "del_unlock"}
  /\ size = NumEntries
  /\ size >= 2

NoCycle(i) ==
  LET a == ChainAddrs(i)
  IN  \A m \in DOMAIN a, n \in DOMAIN a : m # n => a[m] # a[n]

\* C8: once every thread has returned from its last call, size equals the
\* number of distinct keys in the table and no chain has a cycle or a
\* duplicate key.
QuiescentSize ==
  (\A t \in Threads : ~InFlight(t)) =>
     /\ size = Cardinality(KeysPresent)
     /\ \A i \in Buckets : NoCycle(i) /\ NoDuplicateKey(i)

\* all calls of a run with overlapping calls have returned, an entry was
\* deleted and one remains
QuiescentWitness ==
  /\ \A t \in Threads : ~InFlight(t)
  /\ overlap
  /\ completed = Len(load.warm) + load.calls
  /\ size = 1
  /\ \E k \in Keys : quiet[k].kind = "del"

CountedOnce ==
  \A t \in Threads :
    /\ th[t].pc \in {"get_ret", "put_ret", "del_ret"} => obs[t].opDelta = 1
    /\ th[t].pc \in {"get_lock", "get_loop", "get_unlock", "get_count",
                     "put_lock", "put_head", "put_loop", "put_unlock",
                     "put_size", "put_sized", "put_count", "del_count"}
         => obs[t].opDelta = 0

CountAtRest == (\A t \in Threads : ~InFlight(t)) => numOps = completed

\* C9: numOps never decreases, every call has incremented it exactly once
\* when it returns, and when all calls have returned numOps is their number.
OperationCounting ==
  [](CountedOnce /\ CountAtRest) /\ [][numOps' >= numOps]_vars

\* overlapping calls have all returned and are all counted
OperationCountingWitness ==
  /\ \A t \in Threads : ~InFlight(t)
  /\ overlap
  /\ completed = Len(load.warm) + load.calls
  /\ numOps = Len(load.warm) + load.calls

\* the positions at which a thread reads or writes table[i] or an entry of
\* chain i, or is between two such accesses
ChainPcs == {"get_loop", "get_unlock", "put_head", "put_loop", "put_unlock",
             "del_empty", "del_head", "del_head_clear", "del_head_free",
             "del_head_unlock", "del_loop",
             "del_size", "del_sized", "del_unlock"}

HoldsBucket ==
  \A t \in Threads :
    /\ th[t].pc \in ChainPcs => bucketLocks[Idx(t)] = t
    /\ \A u \in Threads \ {t} :
         (th[t].pc \in ChainPcs /\ th[u].pc \in ChainPcs) => Idx(t) # Idx(u)

WritesUnderLock ==
  (table' # table \/ heap' # heap) =>
     \E t \in Threads : Steps(t) /\ bucketLocks[Idx(t)] = t

\* C10: a thread that reads or writes table[i] or an entry of chain i holds
\* bucketLocks[i], and no two threads are in the chain of one bucket at once.
BucketExclusion == [](HoldsBucket) /\ [][WritesUnderLock]_vars

\* a thread is inside a chain while another waits for the same bucket
BucketExclusionWitness ==
  \E t \in Threads, u \in Threads :
    /\ t # u
    /\ th[t].pc \in {"put_loop", "del_loop", "get_loop"}
    /\ th[u].pc \in {"get_lock", "put_lock", "del_lock"}
    /\ Idx(u) = Idx(t)
    /\ bucketLocks[Idx(t)] = t

\* the guards thread t holds: the buckets it has locked, "op", "size"
Held(t) ==
  {i \in Buckets : bucketLocks[i] = t}
    \cup (IF opLock = t THEN {"op"} ELSE {})
    \cup (IF sizeLock = t THEN {"size"} ELSE {})

\* thread t is at a lock call for sizeLock or opLock
AtCounterLock(t) ==
  th[t].pc \in {"put_size", "del_head_size", "del_size",
                "get_count", "put_count", "del_count"}

\* C11: no thread ever holds two guards at once, and a thread that waits for
\* sizeLock or opLock holds no bucket guard, on every path of get, put and
\* del, the removal of a non-head entry by del included.
SingleGuard ==
  \A t \in Threads :
    /\ Cardinality(Held(t)) <= 1
    /\ AtCounterLock(t) => Held(t) = {}

\* thread t is at a lock call and another thread holds the mutex
Blocked(t) ==
  \/ th[t].pc \in {"get_lock", "put_lock", "del_lock"}
       /\ bucketLocks[Idx(t)] \notin {NoThread, t}
  \/ th[t].pc \in {"put_size", "del_head_size", "del_size"}
       /\ sizeLock \notin {NoThread, t}
  \/ th[t].pc \in {"get_count", "put_count", "del_count"}
       /\ opLock \notin {NoThread, t}

\* the running calls do not all wait for a mutex
NoStuck ==
  (\E t \in Threads : InFlight(t)) => \E t \in Threads : InFlight(t) /\ ~Blocked(t)

\* a call that is about to return, or has returned, holds no guard
ReturnsFree ==
  \A t \in Threads :
    th[t].pc \in {"idle", "get_ret", "put_ret", "del_ret"} => Held(t) = {}

\* C12: the running calls never all wait for guards, a call returns with
\* every guard it took released (the empty-bucket return of del included),
\* and under fair scheduling every call that has started returns.
Completion ==
  /\ [](NoStuck /\ ReturnsFree)
  /\ \A t \in Threads : []<>(~InFlight(t))

\* a del that holds its bucket waits for sizeLock, which another call holds
CompletionWitness ==
  \E t \in Threads, u \in Threads :
    /\ t # u
    /\ At(t, "del_size") /\ bucketLocks[Idx(t)] = t
    /\ sizeLock = u

\* C13: on a map of any capacity >= 1, get, put and del of key k, negative
\* keys included, all work on index (k read as unsigned 32-bit) mod capacity,
\* which lies in 0 .. capacity - 1.
IndexMapping ==
  capacity >= 1 =>
    \A t \in Threads :
      InFlight(t) =>
        /\ Idx(t) = UnsignedIndex(th[t].key)
        /\ Idx(t) \in 0..(capacity - 1)

\* a del of a negative key whose index is not the residue of the signed key
IndexMappingWitness ==
  \E t \in Threads :
    /\ th[t].op = "del" /\ th[t].pc = "del_lock"
    /\ th[t].key < -2
    /\ capacity >= 3
    /\ Idx(t) = UnsignedIndex(th[t].key)
    /\ Idx(t) # th[t].key % capacity

\* C14: initmap rejects a capacity <= 0 and returns no map for it; for a
\* capacity >= 1 the map it returns has, before the first call, capacity
\* empty buckets, size 0 and numOps 0.
CapacityChecked ==
  /\ capacity <= 0 => map = NULL
  /\ (capacity >= 1 /\ started = 0) =>
        /\ map # NULL
        /\ DOMAIN table = 0..(capacity - 1)
        /\ \A i \in Buckets : table[i] = NULL /\ bucketLocks[i] = NoThread
        /\ size = 0 /\ numOps = 0

\* thread t holds the guard of some bucket
InBucket(t) == \E i \in Buckets : bucketLocks[i] = t

CountPosition ==
  \A t \in Threads :
    /\ th[t].op = "del" =>
          /\ th[t].pc \in {"del_count", "del_counted"} =>
                ~InBucket(t) /\ obs[t].opDelta = 0
          /\ th[t].pc \notin {"del_count", "del_counted"} => obs[t].opDelta = 1
    /\ th[t].op \in {"get", "put"} =>
          /\ InBucket(t) => obs[t].opDelta = 0
          /\ th[t].pc \in {"get_lock", "put_lock"} => obs[t].opDelta = 0
          /\ th[t].pc \in {"get_count", "get_counted", "get_ret",
                           "put_count", "put_counted", "put_ret"} => ~InBucket(t)
    /\ opLock = t =>
          /\ th[t].pc \in {"get_counted", "put_counted", "del_counted"}
          /\ Held(t) = {"op"}

CountStep ==
  /\ numOps' # numOps =>
        \E t \in Threads : opLock = t /\ opLock' = NoThread /\ numOps' = numOps + 1
  /\ opLock' # opLock =>
        /\ table' = table /\ heap' = heap /\ size' = size
        /\ bucketLocks' = bucketLocks /\ sizeLock' = sizeLock
        /\ \/ opLock = NoThread /\ numOps' = numOps
           \/ opLock' = NoThread /\ numOps' = numOps + 1

\* C15: del has incremented numOps before it asks for its bucket guard, on
\* the empty-bucket return too; get and put increment it only after they have
\* released the bucket guard; opLock is held for the increment alone.
CountOrdering == [](CountPosition) /\ [][CountStep]_vars

\* a counted del waits for the bucket in which an uncounted put is working
CountOrderingWitness ==
  \E t \in Threads, u \in Threads :
    /\ th[t].op = "del" /\ th[t].pc = "del_lock" /\ obs[t].opDelta = 1
    /\ th[u].op = "put" /\ bucketLocks[Idx(t)] = u /\ obs[u].opDelta = 0
    /\ numOps = completed + 1

\* sequence c without its n-th element
Without(c, n) == SubSeq(c, 1, n - 1) \o SubSeq(c, n + 1, Len(c))

\* what a step of a call on key k may do to a chain: nothing, append k with
\* the value of the put, give the entry of k the value of the put, or take
\* the entry of k out
ChainStep ==
  \/ table' = table /\ heap' = heap
  \/ \A t \in Threads :
       \A k \in Keys :
         (Steps(t) /\ th[t].key = k) =>
            \A i \in Buckets :
              LET c == Chain(i)
                  d == Chain(i)'
                  at == {n \in DOMAIN c : c[n][1] = k}
              IN  \/ d = c
                  \/ /\ th[t].op = "put" /\ i = Idx(t) /\ at = {}
                     /\ d = Append(c, <<k, th[t].value>>)
                  \/ /\ th[t].op = "put" /\ i = Idx(t)
                     /\ \E n \in at : d = [c EXCEPT ![n] = <<k, th[t].value>>]
                  \/ /\ th[t].op = "del" /\ i = Idx(t)
                     /\ \E n \in at : d = Without(c, n)

\* C16: a put of a new key appends it at the tail of its chain (as the head
\* of an empty one), a put of a stored key changes its value and no position,
\* a del takes out the entry of its key and keeps the order of the others:
\* every chain lists its keys in the order of their insertion.
ChainOrder == [][ChainStep]_vars

\* a put has replaced the value of the first of two keys of a chain
ChainOrderWitness ==
  \E t \in Threads :
    /\ At(t, "put_unlock") /\ th[t].madeNewBucket = 0
    /\ LET c == Chain(Idx(t))
       IN  /\ Len(c) >= 2
           /\ c[1] = <<th[t].key, th[t].value>>
           /\ c[2][2] # th[t].value
    /\ th[t].returnValue # th[t].value

\* the positions of a call after the step at which it takes effect
Decided ==
  {"get_unlock", "get_count", "get_counted", "get_ret",
   "put_unlock", "put_size", "put_sized", "put_count", "put_counted", "put_ret",
   "del_empty", "del_head_free", "del_head_unlock", "del_head_size",
   "del_head_sized", "del_size", "del_sized", "del_unlock", "del_ret"}

\* the contents of the map: the (key, value) pairs of all chains
Pairs == UNION {LET c == Chain(i) IN {c[n] : n \in DOMAIN c} : i \in Buckets}

\* get(k) on a map of contents m
RefGet(m, k) ==
  IF \E p \in m : p[1] = k THEN (CHOOSE p \in m : p[1] = k)[2] ELSE INT_MAX

\* the contents after put(k, v) and after del(k) on a map of contents m
RefPut(m, k, v) == {p \in m : p[1] # k} \cup {<<k, v>>}

RefDel(m, k) == {p \in m : p[1] # k}

\* a step of a call either is the one step at which the call takes effect,
\* made while its thread holds the bucket (the step into Decided), where
\* contents and result are those of the sequential map, or it changes
\* neither the contents nor a result already fixed; after its effect a call
\* only goes on to its return
LinStep ==
  \A t \in Threads :
    \A k \in Keys :
      (Steps(t) /\ th[t].key = k) =>
         IF th[t].pc \notin Decided /\ th'[t].pc \in Decided
         THEN /\ bucketLocks'[Idx(t)] = t
              /\ th'[t].returnValue = RefGet(Pairs, k)
              /\ Pairs' = IF th[t].op = "put" THEN RefPut(Pairs, k, th[t].value)
                          ELSE IF th[t].op = "del" THEN RefDel(Pairs, k)
                          ELSE Pairs
         ELSE /\ Pairs' = Pairs
              /\ th[t].pc \in Decided =>
                    \/ th'[t].pc = "idle"
                    \/ /\ th'[t].pc \in Decided
                       /\ th'[t].returnValue = th[t].returnValue

\* a call starts with its effect still to come, and starting changes nothing
CallStep ==
  \A t \in Threads :
    (~InFlight(t) /\ th'[t] # th[t]) => Pairs' = Pairs /\ th'[t].pc \notin Decided

\* C17: every call takes effect at one step inside its bucket critical
\* section; at that step the contents of the chains change, and the result
\* is fixed, as put, get and del of a sequential map prescribe, so contents
\* and returned values are those of the calls run one at a time in the order
\* of these steps.
Linearizable == [][LinStep /\ CallStep]_vars

\* a get has read the value of a put on its key that has not returned yet
LinearizableWitness ==
  \E t \in Threads, u \in Threads :
    /\ t # u
    /\ th[t].op = "put" /\ th[t].pc \in Decided
    /\ th[u].op = "get" /\ th[u].pc \in Decided
    /\ th[u].key = th[t].key
    /\ th[u].returnValue = th[t].value
    /\ th[t].returnValue # INT_MAX

\* the puts that have linked a new entry and not yet stored size + 1
PutsPending ==
  {t \in Threads : /\ th[t].madeNewBucket = 1
                   /\ th[t].pc \in {"put_unlock", "put_size", "put_sized"}}

\* the dels that have unlinked an entry and not yet stored size - 1
DelsPending ==
  {t \in Threads : th[t].pc \in {"del_head_free", "del_head_unlock",
                                 "del_head_size", "del_head_sized",
                                 "del_size", "del_sized"}}

\* C18: in every reachable state size is the number of entries in the chains,
\* less the puts that have linked an entry and not yet incremented size, plus
\* the dels that have unlinked one and not yet decremented it; size and the
\* number of entries differ by at most the number of running calls.
SizeAccounting ==
  /\ size = (NumEntries - Cardinality(PutsPending)) + Cardinality(DelsPending)
  /\ size - NumEntries <= Cardinality({t \in Threads : InFlight(t)})
  /\ NumEntries - size <= Cardinality({t \in Threads : InFlight(t)})

\* size is negative: a del has decremented it for an entry whose put has not
\* incremented it yet
SizeAccountingWitness ==
  /\ size < 0
  /\ PutsPending # {}
  /\ size = (NumEntries - Cardinality(PutsPending)) + Cardinality(DelsPending)

\* the running calls that have stored numOps + 1: a del once past its first
\* lines, a get or put only when all that is left is its return
Counted ==
  {t \in Threads :
     \/ th[t].op = "del" /\ th[t].pc \notin {"del_count", "del_counted", "crashed"}
     \/ th[t].pc \in {"get_ret", "put_ret"}}

\* C19: numOps is at least the number of calls that have returned and at
\* most the number of calls that have started, and exceeds the returned calls
\* by the number of running calls that have made their increment.
CountBounds ==
  /\ completed <= numOps
  /\ numOps <= started
  /\ numOps - completed = Cardinality(Counted)

\* numOps lies strictly between the two bounds: a counted del and an
\* uncounted get are inside their chains
CountBoundsWitness ==
  /\ completed < numOps
  /\ numOps < started
  /\ \E t \in Threads, u \in Threads :
       /\ th[t].op = "del" /\ bucketLocks[Idx(t)] = t
       /\ th[u].op = "get" /\ bucketLocks[Idx(u)] = u

\* the addresses of the entries linked into some chain
Linked == UNION {LET a == ChainAddrs(i) IN {a[n] : n \in DOMAIN a} : i \in Buckets}

\* the positions whose next step reads or writes the entry at bucket
DerefPcs == {"get_loop", "put_loop", "del_head", "del_loop"}

\* no step reads, writes or frees a freed entry
NoUseAfterFree ==
  \A t \in Threads :
    /\ (th[t].pc \in DerefPcs /\ th[t].bucket # NULL) =>
          /\ bucketLocks[Idx(t)] = t
          /\ heap[th[t].bucket].live
          /\ th[t].bucket \in Linked
          /\ (th[t].pc = "del_loop" /\ heap[th[t].bucket].next # NULL) =>
                heap[heap[th[t].bucket].next].live
    /\ th[t].pc = "del_head_free" =>
          /\ bucketLocks[Idx(t)] = t
          /\ heap[th[t].bucket].live
          /\ th[t].bucket \notin Linked

FreedHeadOnly ==
  \A i \in Buckets :
    LET a == ChainAddrs(i)
    IN  \A n \in DOMAIN a :
          ~heap[a[n]].live =>
             \E t \in Threads :
               /\ th[t].pc = "del_head_clear" /\ Idx(t) = i
               /\ th[t].bucket = a[n] /\ n = 1
               /\ bucketLocks[i] = t

\* an entry is freed by a step of a del that holds the bucket guard before
\* and after the step, and the entry is then unlinked or about to be
FreeStep ==
  \A a \in Addrs :
    (heap[a].live /\ ~heap'[a].live) =>
       \E t \in Threads :
         /\ Steps(t) /\ th[t].op = "del"
         /\ bucketLocks[Idx(t)] = t /\ bucketLocks' = bucketLocks
         /\ a \notin Linked' \/ th'[t].pc = "del_head_clear"

====
